---- MODULE Spec2Model ----
(***************************************************************************)
(* The suggestion controllers of bore's HpBandSter plugin:                 *)
(*   RatioEstimator                     (src/bore/plugins/hpbandster.py)   *)
(*   SequenceClassifierConfigGenerator  (.../hpbandster/multi_fidelity.py) *)
(* as a state machine: construction through BORE / BOREHyperband, then any *)
(* interleaving of get_config and new_result.                              *)
(*                                                                         *)
(* Record, MultiFidelityRecord, the classifier's argmax (multi-start) and  *)
(* truncated_normal are imported by these files from modules that are not  *)
(* part of the sources at hand; they are modelled from the specification   *)
(* (spec.md sections 3, 4.1-4.3) and marked so where they are defined.     *)
(***************************************************************************)
EXTENDS Integers, Sequences, FiniteSets, TLC

VARIABLES
    phase,    \* "new" | "ready" | "failed" (constructor raised) | "hung" (a call never returns)
    cg,       \* the config generator's construction-time attributes, None without an instance
    record,   \* self.record: the observations, in arrival order
    logit,    \* self.logit: "none" | "fresh" (built, never fitted) | "trained"
    funcs,    \* self.funcs (multi-fidelity): the rung indices holding a cached scorer head
    restart,  \* the mode argmax runs in when called without `restart`, as get_config calls it
    jobs,     \* history: the jobs of the completed new_result calls, in order
    restart_given, \* history: the `restart` argument the BORE at hand was constructed with
    call      \* what the last call (constructor or handler) did and returned

vars == <<phase, cg, record, logit, funcs, restart, jobs, restart_given, call>>

----------------------------------------------------------------------------
(* Bounds and value sets *)

MaxRecord == 2     \* new_result calls modelled, RatioEstimator
MaxRungRecord == 3 \* new_result calls modelled, SequenceClassifierConfigGenerator
MaxFit == 3        \* observations in the Record a classifier is trained on

None == {}
Some(v) == {v}
The(s) == CHOOSE v \in s : TRUE

\* rationals n/d with d > 0, for gamma, random_rate and distortion
R(n, d) == [n |-> n, d |-> d]
Lt(a, b) == a.n * b.d < b.n * a.d
Le(a, b) == a.n * b.d <= b.n * a.d
Zero == R(0, 1)
One == R(1, 1)

X == {"x1", "x2"}          \* dense vectors inside the box bounds
NaN == "nan"               \* the vector of a draw scipy could not make
Losses == {1, 2}           \* y of the single-fidelity jobs
FlatBudgets == {1}         \* b of the single-fidelity jobs, which is stored and never read
RungLosses == {1}          \* y of the multi-fidelity jobs
Budgets == {1, 2}          \* b of the multi-fidelity jobs
Funs == {1, 2}             \* res.fun
Statuses == {0, 1, 2}      \* res.status: 0 converged, 1 iteration limit, 2 abnormal

Etas == {1, 2}
InitArgs == {0, 1, 2}      \* num_random_init
StartsArgs == {0, 1, 2}    \* num_starts
Tries == {1, 2}            \* batches a restart-until-success run takes when it ends
GammaArgs == {None} \cup {Some(R(n, 2)) : n \in -1..3}
RateArgs == {None} \cup {Some(R(n, 2)) : n \in -1..2}
DistortionArgs == {None} \cup {Some(R(n, 2)) : n \in -1..1}

----------------------------------------------------------------------------
(* The excluded configuration-space component, at its interface *)

dict_from_array(array) == [values |-> array]
array_from_dict(dct) == dct.values

----------------------------------------------------------------------------
(* Record / MultiFidelityRecord (bore.data), from the specification *)

Observation(x, y, b) == [x |-> x, y |-> y, b |-> b]

append(rec, x, y, b) == Append(rec, Observation(x, y, b))

size(rec) == Len(rec)

is_duplicate(rec, x) == \E i \in 1..Len(rec) : rec[i].x = x

budgets(rec) == {rec[i].b : i \in 1..Len(rec)}

rung_size(rec, b) == Cardinality({i \in 1..Len(rec) : rec[i].b = b})

\* zero-based index of budget b among the budgets seen, ascending
rung_index(rec, b) == Cardinality({c \in budgets(rec) : c < b})

highest_rung(rec, min_size) ==
    LET eligible == {b \in budgets(rec) : rung_size(rec, b) >= min_size}
    IN  IF eligible = {} THEN None
        ELSE Some(rung_index(rec, CHOOSE b \in eligible : \A c \in eligible : c <= b))

----------------------------------------------------------------------------
(* The call summary *)

NoCall ==
    [op |-> "none", ret |-> "none", branch |-> "none", error |-> "none",
     args |-> None, config_random |-> None, config |-> None,
     draws |-> <<>>, created |-> FALSE, fit_from |-> "none",
     t |-> None, head_built |-> FALSE, maximized |-> FALSE,
     batches |-> 0, launched |-> 0, results |-> <<>>, opt |-> None,
     loc |-> None, cause |-> "none", diag |-> "none",
     distorted |-> FALSE, array |-> None]

Draw(gen, by) == [gen |-> gen, by |-> by]

----------------------------------------------------------------------------
(* Construction *)

Args(class, eta, gamma, num_random_init, random_rate, retrain, distortion, num_starts) ==
    [class |-> class, eta |-> eta, gamma |-> gamma,
     num_random_init |-> num_random_init, random_rate |-> random_rate,
     retrain |-> retrain, distortion |-> distortion, num_starts |-> num_starts]

ArgSets(class) ==
    {Args(class, eta, gamma, n, rate, retrain, distortion, k) :
        eta \in Etas, gamma \in GammaArgs, n \in InitArgs, rate \in RateArgs,
        retrain \in BOOLEAN, distortion \in DistortionArgs, k \in StartsArgs}

\* gamma = 1/eta when gamma is None
default_gamma(gamma, eta) == IF gamma = None THEN R(1, eta) ELSE The(gamma)

\* mutant: the bounds of the interval admitted
gamma_ok_closed(gamma) == Le(Zero, gamma) /\ Le(gamma, One)

\* assert 0. < gamma < 1.
gamma_ok(gamma) == Lt(Zero, gamma) /\ Lt(gamma, One)

\* assert random_rate is None or 0. <= random_rate < 1.
random_rate_ok(random_rate) ==
    random_rate = None \/ (Le(Zero, The(random_rate)) /\ Lt(The(random_rate), One))

\* the first statement of RatioEstimator.__init__ that raises, "none" if none does
RatioEstimator_raises(gamma, a) ==
    IF ~gamma_ok(gamma) THEN "AssertionError: gamma"
    ELSE IF ~(a.num_random_init > 0) THEN "AssertionError: num_random_init"
    ELSE IF ~random_rate_ok(a.random_rate) THEN "AssertionError: random_rate"
    ELSE IF ~(a.num_starts > 0) THEN "AssertionError: num_starts"
    ELSE "none"

\* the first statement of SequenceClassifierConfigGenerator.__init__ that raises
SequenceClassifier_raises(gamma, a) ==
    IF ~gamma_ok(gamma) THEN "AssertionError: gamma"
    ELSE IF ~(a.num_random_init > 0) THEN "AssertionError: num_random_init"
    ELSE IF ~random_rate_ok(a.random_rate) THEN "AssertionError: random_rate"
    ELSE IF a.retrain THEN "NotImplementedError"
    ELSE IF ~(a.num_starts > 0) THEN "AssertionError: num_starts"
    ELSE "none"

Attributes(class, gamma, a) ==
    [class |-> class, gamma |-> gamma, num_random_init |-> a.num_random_init,
     random_rate |-> a.random_rate, retrain |-> a.retrain,
     distortion |-> a.distortion, num_starts |-> a.num_starts]

Raised(a, error) ==
    /\ phase' = "failed"
    /\ call' = [NoCall EXCEPT !.op = "__init__", !.ret = "raised",
                              !.error = error, !.args = Some(a)]
    /\ UNCHANGED <<cg, record, logit, funcs, restart, restart_given, jobs>>

\* BORE(...): builds the RatioEstimator before anything else
BORE_init ==
    /\ phase = "new"
    /\ \E a \in ArgSets("BORE"), restart_arg \in BOOLEAN :
        LET gamma == default_gamma(a.gamma, a.eta)
            error == RatioEstimator_raises(gamma, a)
        IN  IF error # "none" THEN Raised(a, error)
            ELSE /\ phase' = "ready"
                 /\ cg' = Some(Attributes("RatioEstimator", gamma, a))
                 /\ record' = <<>>
                 /\ logit' = "none"
                 /\ restart_given' = Some(restart_arg)
                 /\ call' = [NoCall EXCEPT !.op = "__init__", !.args = Some(a)]
                 /\ UNCHANGED <<funcs, restart, jobs>>

\* BOREHyperband(...): builds the SequenceClassifierConfigGenerator first
BOREHyperband_init ==
    /\ phase = "new"
    /\ \E a \in ArgSets("BOREHyperband") :
        LET gamma == default_gamma(a.gamma, a.eta)
            error == SequenceClassifier_raises(gamma, a)
        IN  IF error # "none" THEN Raised(a, error)
            ELSE /\ phase' = "ready"
                 /\ cg' = Some(Attributes("SequenceClassifierConfigGenerator", gamma, a))
                 /\ record' = <<>>
                 /\ logit' = "fresh"
                 /\ funcs' = {}
                 /\ call' = [NoCall EXCEPT !.op = "__init__", !.args = Some(a)]
                 /\ UNCHANGED <<restart, restart_given, jobs>>

self == The(cg)

----------------------------------------------------------------------------
(* new_result *)

Jobs == [config : {dict_from_array(x) : x \in X}, loss : Losses, budget : FlatBudgets]
RungJobs == [config : {dict_from_array(x) : x \in X}, loss : RungLosses, budget : Budgets]

\* mutant: loss and budget stored in each other's place
RatioEstimator_record_swapped(rec, job) ==
    append(rec, array_from_dict(job.config), job.budget, job.loss)

\* what new_result(job) leaves in the Record
RatioEstimator_record(rec, job) ==
    LET budget == job.budget
        config_dict == job.config
        config_arr == array_from_dict(config_dict)
        loss == job.loss
    IN  append(rec, config_arr, loss, budget)

\* RatioEstimator.new_result(job)
new_result ==
    /\ phase = "ready" /\ self.class = "RatioEstimator"
    /\ Len(record) < MaxRecord
    /\ \E job \in Jobs :
        /\ record' = RatioEstimator_record(record, job)
        /\ jobs' = Append(jobs, job)
    /\ call' = [NoCall EXCEPT !.op = "new_result"]
    /\ UNCHANGED <<phase, cg, logit, funcs, restart, restart_given>>

SequenceClassifier_record(rec, job) ==
    LET budget == job.budget
        config_dict == job.config
        config_arr == array_from_dict(config_dict)
        loss == job.loss
    IN  append(rec, config_arr, loss, budget)

\* SequenceClassifierConfigGenerator.new_result(job)
mf_new_result ==
    /\ phase = "ready" /\ self.class = "SequenceClassifierConfigGenerator"
    /\ Len(record) < MaxRungRecord
    /\ \E job \in RungJobs :
        /\ record' = SequenceClassifier_record(record, job)
        /\ jobs' = Append(jobs, job)
    /\ call' = [NoCall EXCEPT !.op = "new_result"]
    /\ UNCHANGED <<phase, cg, logit, funcs, restart, restart_given>>

----------------------------------------------------------------------------
(* Multi-start maximisation (bore.models / bore.optimizers), from the
   specification, section 4.3 *)

\* the OptimizeResult of one local search
Results == [x : X, fun : Funs, status : Statuses]

success(res) == res.status = 0

\* a run ending in success or in status 1 (iteration limit) is acceptable
usable(res) == success(res) \/ res.status = 1

\* mutant: the filter returns is_duplicate itself
_is_unique_inverted(rec, res) == is_duplicate(rec, res.x)

\* mutant: the filter lets every result pass
_is_unique_always(rec, res) == TRUE

\* RatioEstimator._is_unique / SequenceClassifierConfigGenerator._is_unique,
\* the filter_fn handed to argmax
_is_unique(rec, res) ==
    LET duplicate == is_duplicate(rec, res.x)
    IN  ~duplicate

\* filter_fn=self._is_unique as argmax receives it: a predicate on results
filter_fn(rec) == [res \in Results |-> _is_unique(rec, res)]

RECURSIVE argmax_scan(_, _, _, _)
argmax_scan(results, keep, i, res_best) ==
    IF i > Len(results) THEN res_best
    ELSE LET res == results[i]
             better == /\ usable(res)
                       /\ keep[res]
                       /\ (res_best = None \/ res.fun < The(res_best).fun)
         IN  argmax_scan(results, keep, i + 1, IF better THEN Some(res) ELSE res_best)

\* the best survivor of one batch of local searches, None if none survives
argmax(results, keep) == argmax_scan(results, keep, 1, None)

Batches(num_starts) == [1..num_starts -> Results]

\* why a batch left no survivor
cause_of(results) ==
    IF \A i \in 1..Len(results) : ~usable(results[i]) THEN "all_failed"
    ELSE "all_duplicates"

\* what func.argmax(bounds, num_starts=..., filter_fn=..., random_state=...) can do:
\* one batch (best-of), or batches until one has a survivor, which may never come.
\* `traced` keeps the batch and the optimum; otherwise only loc = opt.x and the
\* cause of an empty result are kept
Maximum(returned, batches, results, opt, traced) ==
    [returned |-> returned, batches |-> batches,
     results |-> IF traced THEN results ELSE <<>>,
     opt |-> IF traced THEN opt ELSE None,
     found |-> opt # None,
     loc |-> IF opt = None THEN None ELSE Some(The(opt).x),
     cause |-> IF opt = None /\ returned THEN cause_of(results) ELSE "none"]

maxima_of(keep, num_starts, best_of, traced) ==
    IF best_of
    THEN {Maximum(TRUE, 1, rs, argmax(rs, keep), traced) : rs \in Batches(num_starts)}
    ELSE {Maximum(TRUE, tries, rs, argmax(rs, keep), traced) :
            tries \in Tries,
            rs \in {batch \in Batches(num_starts) : argmax(batch, keep) # None}}
         \cup {Maximum(FALSE, 0, <<>>, None, traced)}

\* maxima_of, computed once for the filters that read res.x alone
MaximaTable ==
    {[keep |-> keep, num_starts |-> k, best_of |-> mode,
      value |-> maxima_of(keep, k, mode, FALSE)] :
        keep \in {[res \in Results |-> res.x \notin D] : D \in SUBSET X},
        k \in StartsArgs \ {0}, mode \in BOOLEAN}

maxima(keep, num_starts, best_of, traced) ==
    LET known == {e \in MaximaTable : /\ e.keep = keep
                                      /\ e.num_starts = num_starts
                                      /\ e.best_of = best_of}
    IN  IF ~traced /\ known # {} THEN The(known).value
        ELSE maxima_of(keep, num_starts, best_of, traced)

\* truncated_normal(loc, scale, lower, upper).rvs(random_state): a vector in the
\* box; with a scale that is not positive the distribution is undefined
rvs(loc, scale) == IF Lt(Zero, scale) THEN X ELSE X \cup {NaN}

----------------------------------------------------------------------------
(* get_config: the pieces *)

\* self.config_space.sample_configuration(): the ConfigurationSpace's own generator
SampleDraw == Draw("config_space", "sample_configuration")
\* self.random_state.binomial(p=self.random_rate, n=1)
TrialDraw == Draw("random_state", "binomial")
\* argmax(..., random_state=self.random_state): one draw of starting points per batch
StartsDraw == Draw("random_state", "multi_start")
\* mutant: rvs() called without random_state, drawing from numpy's global generator
DistortDraw_global == Draw("numpy.random", "truncated_normal")

\* truncated_normal(...).rvs(random_state=random_state)
DistortDraw == Draw("random_state", "truncated_normal")

\* mutant: `if self.random_rate and ...`, which skips the draw at random_rate = 0
trial_drawn_if_truthy(random_rate) == random_rate # None /\ Lt(Zero, The(random_rate))

\* `self.random_rate is not None and ...`: the right operand is evaluated, and the
\* generator consumed, only when random_rate is set
trial_drawn(random_rate) == random_rate # None

\* the values binomial(p, n=1) can take
Trials(random_rate) ==
    IF trial_drawn(random_rate) /\ Lt(Zero, The(random_rate)) THEN {0, 1} ELSE {0}

epsilon_greedy(random_rate, trial) == trial_drawn(random_rate) /\ trial = 1

\* mutant: off by one
insufficient_off_by_one(dataset_size, num_random_init) == dataset_size + 1 < num_random_init

insufficient(dataset_size, num_random_init) == dataset_size < num_random_init

_maybe_create_classifier(l) == IF l = "none" THEN "fresh" ELSE l

_update_classifier(l) == "trained"

_maybe_delete_classifier(retrain, l) == IF retrain THEN "none" ELSE l

\* the one warning of the `opt is None` branch, whatever the cause
not_found_warning(cause) == "Glob. maximum: not found! Either failed in all starts, or all maxima evaluated previously"

distorts(distortion) == distortion # None

maybe_distort(loc, distortion, ret) == IF ~distorts(distortion) THEN loc ELSE ret

----------------------------------------------------------------------------
(* get_config *)

Returned(c) ==
    /\ call' = c
    /\ UNCHANGED <<phase, cg, record, funcs, restart, restart_given, jobs>>

\* RatioEstimator.get_config(budget); `traced` keeps the batch of local searches
\* and the optimum in the call summary
RatioEstimator_get_config(traced) ==
    /\ phase = "ready" /\ self.class = "RatioEstimator"
    /\ LET argmax_can == maxima(filter_fn(record), self.num_starts, restart, traced) IN
       \E config_random \in X, trial \in Trials(self.random_rate) :
        LET dataset_size == size(record)
            config_random_dict == dict_from_array(config_random)
            c0 == [NoCall EXCEPT
                     !.op = "get_config",
                     !.config_random = Some(config_random_dict),
                     !.draws = <<SampleDraw>> \o
                               (IF trial_drawn(self.random_rate) THEN <<TrialDraw>> ELSE <<>>)]
        IN  IF epsilon_greedy(self.random_rate, trial) THEN
                /\ Returned([c0 EXCEPT !.ret = "random", !.branch = "epsilon_greedy",
                                       !.config = Some(config_random_dict)])
                /\ UNCHANGED logit
            ELSE IF insufficient(dataset_size, self.num_random_init) THEN
                /\ Returned([c0 EXCEPT !.ret = "random", !.branch = "insufficient",
                                       !.config = Some(config_random_dict)])
                /\ UNCHANGED logit
            ELSE
                LET built == _maybe_create_classifier(logit)
                    fitted == _update_classifier(built)
                IN  \E m \in argmax_can :
                    LET c1 == [c0 EXCEPT
                                 !.created = (built # logit),
                                 !.fit_from = built,
                                 !.maximized = TRUE,
                                 !.batches = m.batches,
                                 !.launched = m.batches * self.num_starts,
                                 !.draws = @ \o [i \in 1..m.batches |-> StartsDraw],
                                 !.results = m.results,
                                 !.opt = m.opt]
                    IN  IF ~m.returned THEN
                            /\ phase' = "hung"
                            /\ logit' = fitted
                            /\ call' = [c1 EXCEPT !.ret = "no_return", !.branch = "maximizing"]
                            /\ UNCHANGED <<cg, record, funcs, restart, restart_given, jobs>>
                        ELSE IF ~m.found THEN
                            /\ logit' = fitted
                            /\ Returned([c1 EXCEPT
                                           !.ret = "random", !.branch = "not_found",
                                           !.cause = m.cause,
                                           !.diag = not_found_warning(m.cause),
                                           !.config = Some(config_random_dict)])
                        ELSE
                            LET loc == The(m.loc)
                            IN  \E ret \in (IF distorts(self.distortion)
                                            THEN rvs(loc, The(self.distortion)) ELSE {loc}) :
                                LET config_opt_arr == maybe_distort(loc, self.distortion, ret)
                                    config_opt_dict == dict_from_array(config_opt_arr)
                                IN  /\ logit' = _maybe_delete_classifier(self.retrain, fitted)
                                    /\ Returned([c1 EXCEPT
                                                   !.ret = "model", !.branch = "maximum",
                                                   !.loc = Some(loc),
                                                   !.distorted = distorts(self.distortion),
                                                   !.draws = @ \o (IF distorts(self.distortion)
                                                                   THEN <<DistortDraw>> ELSE <<>>),
                                                   !.array = Some(config_opt_arr),
                                                   !.config = Some(config_opt_dict)])

get_config == RatioEstimator_get_config(FALSE)

\* mutant: eligibility decided on the total number of observations
eligible_rung_by_total(rec, num_random_init) ==
    IF size(rec) >= num_random_init THEN Some(Cardinality(budgets(rec)) - 1) ELSE None

\* t = self.record.highest_rung(min_size=self.num_random_init)
eligible_rung(rec, num_random_init) == highest_rung(rec, num_random_init)

\* SequenceClassifierConfigGenerator.get_config(budget)
mf_get_config ==
    /\ phase = "ready" /\ self.class = "SequenceClassifierConfigGenerator"
    /\ LET argmax_can == maxima(filter_fn(record), self.num_starts, restart, FALSE) IN
       \E config_random \in X, trial \in Trials(self.random_rate) :
        LET config_random_dict == dict_from_array(config_random)
            c0 == [NoCall EXCEPT
                     !.op = "get_config",
                     !.config_random = Some(config_random_dict),
                     !.draws = <<SampleDraw>> \o
                               (IF trial_drawn(self.random_rate) THEN <<TrialDraw>> ELSE <<>>)]
            t == eligible_rung(record, self.num_random_init)
        IN  IF epsilon_greedy(self.random_rate, trial) THEN
                /\ Returned([c0 EXCEPT !.ret = "random", !.branch = "epsilon_greedy",
                                       !.config = Some(config_random_dict)])
                /\ UNCHANGED logit
            ELSE IF t = None THEN
                /\ Returned([c0 EXCEPT !.ret = "random", !.branch = "insufficient",
                                       !.config = Some(config_random_dict)])
                /\ UNCHANGED logit
            ELSE
                LET fitted == _update_classifier(logit)
                IN  \E m \in argmax_can :
                    LET c1 == [c0 EXCEPT
                                 !.t = t,
                                 !.fit_from = logit,
                                 !.head_built = TRUE,
                                 !.maximized = TRUE,
                                 !.batches = m.batches,
                                 !.launched = m.batches * self.num_starts,
                                 !.draws = @ \o [i \in 1..m.batches |-> StartsDraw]]
                    IN  /\ logit' = fitted
                        /\ funcs' = funcs \cup {The(t)}
                        /\ IF ~m.returned THEN
                               /\ phase' = "hung"
                               /\ call' = [c1 EXCEPT !.ret = "no_return", !.branch = "maximizing"]
                               /\ UNCHANGED <<cg, record, restart, restart_given, jobs>>
                           ELSE IF ~m.found THEN
                               /\ call' = [c1 EXCEPT
                                             !.ret = "random", !.branch = "not_found",
                                             !.cause = m.cause,
                                             !.diag = not_found_warning(m.cause),
                                             !.config = Some(config_random_dict)]
                               /\ UNCHANGED <<phase, cg, record, restart, restart_given, jobs>>
                           ELSE
                               LET loc == The(m.loc)
                               IN  \E ret \in (IF distorts(self.distortion)
                                               THEN rvs(loc, The(self.distortion)) ELSE {loc}) :
                                   LET config_opt_arr == maybe_distort(loc, self.distortion, ret)
                                       config_opt_dict == dict_from_array(config_opt_arr)
                                   IN  /\ call' = [c1 EXCEPT
                                                     !.ret = "model", !.branch = "maximum",
                                                     !.loc = Some(loc),
                                                     !.distorted = distorts(self.distortion),
                                                     !.draws = @ \o (IF distorts(self.distortion)
                                                                     THEN <<DistortDraw>> ELSE <<>>),
                                                     !.array = Some(config_opt_arr),
                                                     !.config = Some(config_opt_dict)]
                                       /\ UNCHANGED <<phase, cg, record, restart, restart_given, jobs>>

----------------------------------------------------------------------------
(* Specifications *)

Init ==
    /\ phase = "new"
    /\ cg = None
    /\ record = <<>>
    /\ logit = "none"
    /\ funcs = {}
    /\ restart \in BOOLEAN
    /\ jobs = <<>>
    /\ restart_given = None
    /\ call = NoCall

Next ==
    \/ BORE_init
    \/ BOREHyperband_init
    \/ get_config
    \/ new_result
    \/ mf_get_config
    \/ mf_new_result

Spec == Init /\ [][Next]_vars

\* The Record after new_result has run on each of the jobs js, in order
RECURSIVE recorded(_)
recorded(js) ==
    IF js = <<>> THEN <<>>
    ELSE RatioEstimator_record(recorded(SubSeq(js, 1, Len(js) - 1)), js[Len(js)])

\* One get_config call, with its batch of local searches kept, of a RatioEstimator
\* as BORE(gamma=1/2, num_random_init=1, num_starts=k) builds it, after any
\* sequence of new_result calls and with argmax in best-of mode
InitTraced ==
    /\ phase = "ready"
    /\ cg \in {Some(Attributes("RatioEstimator", R(1, 2),
                               Args("BORE", 2, Some(R(1, 2)), 1, None, FALSE, None, k))) :
                  k \in StartsArgs \ {0}}
    /\ jobs \in UNION {[1..n -> Jobs] : n \in 0..MaxRecord}
    /\ record = recorded(jobs)
    /\ logit = "none"
    /\ funcs = {}
    /\ restart = TRUE
    /\ restart_given = Some(FALSE)
    /\ call = NoCall

get_config_traced == call.op = "none" /\ RatioEstimator_get_config(TRUE)

NextTraced == get_config_traced

SpecTraced == InitTraced /\ [][NextTraced]_vars

----------------------------------------------------------------------------
(* _update_classifier: the training set and the epochs handed to fit *)

FitLosses == {1, 2, 3}         \* y of the observations trained on
BatchSizes == {1, 2}           \* fit_kws["batch_size"]
StepsPerIter == {3, 4}         \* fit_kws["num_steps_per_iter"]
EpochArgs == {None, Some(0), Some(2)}   \* fit_kws["num_epochs"]
FitGammas == {R(1, 4), R(1, 2), R(3, 4)}

\* round(p / q), halves to the even neighbour
round(p, q) ==
    LET fl == p \div q
        twice == 2 * (p % q)
    IN  IF twice < q THEN fl
        ELSE IF twice > q THEN fl + 1
        ELSE IF fl % 2 = 0 THEN fl ELSE fl + 1

\* zero-based rank of observation i by y, earlier arrivals first among equal y
rank(rec, i) ==
    Cardinality({j \in 1..Len(rec) :
                    rec[j].y < rec[i].y \/ (rec[j].y = rec[i].y /\ j < i)})

\* Record.load_classification_data(gamma): (X, z), or the error it fails with
load_classification_data(rec, gamma) ==
    IF ~(Lt(Zero, gamma) /\ Lt(gamma, One)) \/ Len(rec) = 0
    THEN [error |-> "InvalidParameter", X |-> <<>>, z |-> <<>>]
    ELSE LET positives == round(gamma.n * Len(rec), gamma.d)
         IN  [error |-> "none",
              X |-> [i \in 1..Len(rec) |-> rec[i].x],
              z |-> [i \in 1..Len(rec) |-> IF rank(rec, i) < positives THEN 1 ELSE 0]]

\* MultiFidelityRecord.num_features(): the distinct vectors stored, one training
\* sequence each
num_features(rec) == Cardinality({rec[i].x : i \in 1..Len(rec)})

\* mutant: the complement of gamma handed over
training_data_complement(rec, gamma) ==
    load_classification_data(rec, R(gamma.d - gamma.n, gamma.d))

\* X, z = self.record.load_classification_data(self.gamma)
training_data(rec, gamma) == load_classification_data(rec, gamma)

\* int(np.ceil(np.true_divide(dataset_size, self.batch_size)))
_get_steps_per_epoch(dataset_size, batch_size) ==
    (dataset_size + batch_size - 1) \div batch_size

\* bore.math.steps_per_epoch(dataset_size, batch_size)
steps_per_epoch(dataset_size, batch_size) ==
    (dataset_size + batch_size - 1) \div batch_size

\* mutant: `if not num_epochs`, which takes an explicit 0 for unset
epochs_if_truthy(num_epochs, num_steps_per_iter, steps) ==
    IF num_epochs = None \/ num_epochs = Some(0) THEN num_steps_per_iter \div steps
    ELSE The(num_epochs)

\* num_epochs = self.num_epochs; if num_epochs is None: num_steps_per_iter // steps
epochs(num_epochs, num_steps_per_iter, steps) ==
    IF num_epochs = None THEN num_steps_per_iter \div steps
    ELSE The(num_epochs)

FitOptions(class, gamma, batch_size, num_steps_per_iter, num_epochs) ==
    [class |-> class, gamma |-> gamma, batch_size |-> batch_size,
     num_steps_per_iter |-> num_steps_per_iter, num_epochs |-> num_epochs]

Fitted(data, dataset_size, steps, num_epochs) ==
    [op |-> "_update_classifier", X |-> data.X, z |-> data.z, error |-> data.error,
     dataset_size |-> dataset_size, steps_per_epoch |-> steps, num_epochs |-> num_epochs]

\* RatioEstimator._update_classifier()
RatioEstimator_update_classifier ==
    /\ phase = "ready" /\ self.class = "RatioEstimator"
    /\ logit = "fresh"
    /\ LET data == training_data(record, self.gamma)
           dataset_size == size(record)
           steps == _get_steps_per_epoch(dataset_size, self.batch_size)
           num_epochs == epochs(self.num_epochs, self.num_steps_per_iter, steps)
       IN  /\ call' = Fitted(data, dataset_size, steps, num_epochs)
           /\ logit' = _update_classifier(logit)
    /\ UNCHANGED <<phase, cg, record, funcs, restart, restart_given, jobs>>

\* SequenceClassifierConfigGenerator._update_classifier(); the padded sequences
\* it trains on are left out
SequenceClassifier_update_classifier ==
    /\ phase = "ready" /\ self.class = "SequenceClassifierConfigGenerator"
    /\ logit = "fresh"
    /\ LET dataset_size == num_features(record)
           num_steps == steps_per_epoch(dataset_size, self.batch_size)
           num_epochs == epochs(self.num_epochs, self.num_steps_per_iter, num_steps)
       IN  /\ call' = Fitted([X |-> <<>>, z |-> <<>>, error |-> "none"],
                             dataset_size, num_steps, num_epochs)
           /\ logit' = _update_classifier(logit)
    /\ UNCHANGED <<phase, cg, record, funcs, restart, restart_given, jobs>>

FitJobs == [config : {dict_from_array(x) : x \in X}, loss : FitLosses, budget : FlatBudgets]

\* A controller about to train: its fit options, and a Record that new_result
\* calls have filled (get_config trains only on a Record that is not empty)
InitFit ==
    /\ phase = "ready"
    /\ \/ /\ cg \in {Some(FitOptions("RatioEstimator", g, bs, si, ne)) :
                        g \in FitGammas, bs \in BatchSizes,
                        si \in StepsPerIter, ne \in EpochArgs}
          /\ jobs \in UNION {[1..n -> FitJobs] : n \in 1..MaxFit}
       \/ /\ cg \in {Some(FitOptions("SequenceClassifierConfigGenerator", R(1, 2), bs, si, ne)) :
                        bs \in BatchSizes, si \in StepsPerIter, ne \in EpochArgs}
          /\ jobs \in UNION {[1..n -> RungJobs] : n \in 1..MaxFit}
    /\ record = recorded(jobs)
    /\ logit = "fresh"
    /\ funcs = {}
    /\ restart = FALSE
    /\ restart_given = IF self.class = "RatioEstimator" THEN Some(FALSE) ELSE None
    /\ call = NoCall

NextFit ==
    \/ RatioEstimator_update_classifier
    \/ SequenceClassifier_update_classifier

SpecFit == InitFit /\ [][NextFit]_vars

----------------------------------------------------------------------------
(* Properties *)

Live == cg # None

InGetConfig == Live /\ call.op = "get_config"

OfRatioEstimator == Live /\ self.class = "RatioEstimator"

OfSequenceClassifier == Live /\ self.class = "SequenceClassifierConfigGenerator"

HasDraw(d) == \E i \in 1..Len(call.draws) : call.draws[i] = d

\* the call trained the classifier / ran the acquisition optimizer
Trained == call.fit_from # "none"

RandomReturned == call.ret = "random" /\ call.config = call.config_random

\* the budgets whose rung holds at least num_random_init observations
FullRungs ==
    {b \in Budgets :
        Cardinality({i \in 1..Len(record) : record[i].b = b}) >= self.num_random_init}

\* data is insufficient for the controller at hand (get_config leaves the Record
\* alone, so this is also how the last get_config call found it)
DataInsufficient ==
    IF self.class = "RatioEstimator" THEN Len(record) < self.num_random_init
    ELSE FullRungs = {}

\* C1: a RatioEstimator.get_config call made with fewer than num_random_init
\* observations in the Record returns the freshly sampled random configuration
\* and neither creates nor trains the classifier nor runs the acquisition
\* optimizer.
C1_RandomWhileInsufficient ==
    (InGetConfig /\ OfRatioEstimator /\ Len(record) < self.num_random_init)
        => /\ RandomReturned
           /\ ~call.created
           /\ ~Trained
           /\ ~call.maximized
           /\ logit = "none"

C1_Witness ==
    /\ InGetConfig /\ OfRatioEstimator
    /\ self.num_random_init = 2 /\ Len(record) = 1
    /\ self.random_rate # None
    /\ call.branch = "insufficient"

\* C2 as claimed: a get_config call made while data is insufficient draws no
\* epsilon-greedy trial; the trial is drawn only on calls that passed the
\* insufficient-data check, and never with random_rate unset.
C2_NoTrialWhileInsufficient ==
    InGetConfig =>
        /\ (DataInsufficient => ~HasDraw(TrialDraw))
        /\ (HasDraw(TrialDraw) => self.random_rate # None)

\* C2 amended: the epsilon-greedy trial comes first. It is drawn, right after
\* the random configuration is sampled, on every get_config call with
\* random_rate set (data sufficient or not) and on no call with random_rate
\* unset; the insufficient-data check is reached only when the trial did not
\* fire, and is terminal: the call returns the random configuration untrained.
C2_TrialFirst ==
    InGetConfig =>
        /\ (HasDraw(TrialDraw) <=> self.random_rate # None)
        /\ (HasDraw(TrialDraw) => call.draws[2] = TrialDraw)
        /\ (call.branch = "epsilon_greedy" => HasDraw(TrialDraw) /\ RandomReturned)
        /\ (DataInsufficient /\ call.branch # "epsilon_greedy"
                => call.branch = "insufficient" /\ RandomReturned /\ ~Trained)

C2_Witness ==
    /\ InGetConfig
    /\ DataInsufficient
    /\ call.branch = "insufficient"
    /\ HasDraw(TrialDraw)

\* C3: the Record holds exactly the observations of the completed new_result
\* calls, one (x, y, b) per job and in their order, whatever get_config calls
\* came in between: new_result is the only path into the Record.
C3_RecordIsTheJobs ==
    /\ Len(record) = Len(jobs)
    /\ \A i \in 1..Len(jobs) :
          record[i] = [x |-> jobs[i].config.values, y |-> jobs[i].loss, b |-> jobs[i].budget]

C3_Witness ==
    /\ InGetConfig /\ OfRatioEstimator
    /\ call.branch = "maximum"
    /\ Len(record) = 2 /\ Len(jobs) = 2
    /\ jobs[1].budget # jobs[2].loss

\* C4: an optimum get_config accepts from the acquisition optimizer never has
\* the vector of an observation stored in the Record.
C4_OptimumNotStored ==
    (InGetConfig /\ call.branch = "maximum")
        => \A i \in 1..Len(record) : record[i].x # The(call.loc)

\* a vector stored twice with different losses, and an optimum accepted
C4_Witness ==
    /\ InGetConfig /\ OfRatioEstimator
    /\ call.branch = "maximum"
    /\ Len(record) = 2
    /\ record[1].x = record[2].x /\ record[1].y # record[2].y

\* C5: when the acquisition optimizer yields no usable optimum, get_config
\* returns the random configuration and the warning it emits tells the cause:
\* the one for "all optima were duplicates" differs from the one for "all
\* restarts failed".
C5_CauseInDiagnostic ==
    (InGetConfig /\ call.branch = "not_found")
        => /\ RandomReturned
           /\ (call.cause = "all_duplicates" => call.diag # not_found_warning("all_failed"))
           /\ (call.cause = "all_failed" => call.diag # not_found_warning("all_duplicates"))

\* C6: a constructor given a gamma (explicit, or the default 1/eta) outside
\* (0, 1), or a random_rate outside [0, 1), raises and leaves no instance: no
\* attributes, no Record, and no handler ever runs; every instance there is
\* has gamma in (0, 1) and random_rate unset or in [0, 1).
C6_InvalidNeverConstructed ==
    /\ phase = "failed" => cg = None /\ record = <<>> /\ jobs = <<>> /\ call.op = "__init__"
    /\ Live => /\ 0 < self.gamma.n /\ self.gamma.n < self.gamma.d
               /\ \A rate \in self.random_rate : 0 <= rate.n /\ rate.n < rate.d
    /\ call.op = "__init__" =>
          LET a == The(call.args)
              gamma == IF a.gamma = None THEN [n |-> 1, d |-> a.eta] ELSE The(a.gamma)
              bad_gamma == ~(0 < gamma.n /\ gamma.n < gamma.d)
              bad_rate == \E rate \in a.random_rate : ~(0 <= rate.n /\ rate.n < rate.d)
          IN  (bad_gamma \/ bad_rate) => phase = "failed" /\ call.ret = "raised"

\* gamma left unset with eta = 1: the default 1/eta = 1 is rejected
C6_Witness ==
    /\ phase = "failed"
    /\ The(call.args).gamma = None /\ The(call.args).eta = 1
    /\ The(call.args).random_rate = None
    /\ The(call.args).num_random_init > 0 /\ The(call.args).num_starts > 0
    /\ ~The(call.args).retrain

\* C7 as claimed: all draws of one get_config call come from one generator.
C7_OneGenerator ==
    InGetConfig =>
        \A i, j \in 1..Len(call.draws) : call.draws[i].gen = call.draws[j].gen

\* C7 amended: get_config advances two generators, both built from the
\* instance's seed: the random configuration is drawn, first and on every call,
\* from the configuration space's own generator; the epsilon-greedy trial, the
\* multi-start initialisation and the distortion draw consume self.random_state;
\* no third generator is advanced.
C7_TwoGenerators ==
    InGetConfig =>
        /\ Len(call.draws) >= 1
        /\ \A i \in 1..Len(call.draws) :
              LET d == call.draws[i]
              IN  /\ d.gen \in {"config_space", "random_state"}
                  /\ (d.gen = "config_space" <=> i = 1)
                  /\ (d.by = "sample_configuration" <=> i = 1)
                  /\ d.by \in {"sample_configuration", "binomial", "multi_start",
                               "truncated_normal"}

C7_Witness ==
    /\ InGetConfig
    /\ \A by \in {"sample_configuration", "binomial", "multi_start", "truncated_normal"} :
          \E i \in 1..Len(call.draws) : call.draws[i].by = by

\* C8: on the model-based path the optimum is perturbed only under a positive
\* distortion scale; with the scale unset or not positive no distortion draw is
\* made and the decoded vector is the optimizer's optimum.
C8_DistortOnlyIfPositive ==
    (InGetConfig /\ call.branch = "maximum"
                 /\ ~(\E scale \in self.distortion : scale.n > 0))
        => /\ ~call.distorted
           /\ ~HasDraw(DistortDraw)
           /\ call.array = call.loc

\* C9: a multi-fidelity get_config call whose exploration trial did not fire
\* trains and maximizes exactly when some rung holds at least num_random_init
\* observations, and then uses the index (zero-based, budgets ascending) of the
\* highest-budget such rung; otherwise it returns the random configuration
\* untrained, whatever the total number of observations.
C9_HighestFullRung ==
    (InGetConfig /\ OfSequenceClassifier /\ call.branch # "epsilon_greedy")
        => LET seen == {record[i].b : i \in 1..Len(record)}
               top == CHOOSE b \in FullRungs : \A c \in FullRungs : c <= b
           IN  /\ (Trained <=> FullRungs # {})
               /\ (call.maximized <=> FullRungs # {})
               /\ (FullRungs # {}
                     => call.t = {Cardinality({c \in seen : c < top})})
               /\ (FullRungs = {}
                     => RandomReturned /\ call.t = None /\ call.branch = "insufficient")

\* rung 0 is used although a higher rung exists, which is not full yet
C9_Witness ==
    /\ InGetConfig /\ OfSequenceClassifier
    /\ Trained
    /\ call.t = {0}
    /\ \E i \in 1..Len(record) : record[i].b = 2
    /\ FullRungs = {1}

\* the runs of the last batch that ended acceptably on a vector not stored
Survivors ==
    {i \in 1..Len(call.results) :
        /\ call.results[i].status \in {0, 1}
        /\ \A j \in 1..Len(record) : record[j].x # call.results[i].x}

\* C10: in best-of mode the acquisition optimizer runs num_starts local searches
\* once; it returns none exactly when no run both ended in success or status 1
\* and landed on a vector not stored, and otherwise the first of the surviving
\* runs of lowest fun (so the only survivor, when there is one).
C10_BestOf ==
    (InGetConfig /\ call.maximized /\ restart)
        => /\ call.batches = 1
           /\ call.launched = self.num_starts
           /\ Len(call.results) = self.num_starts
           /\ (call.opt = None <=> Survivors = {})
           /\ (call.opt = None <=> call.branch = "not_found")
           /\ \A i \in Survivors :
                 (\A j \in Survivors :
                     \/ call.results[i].fun < call.results[j].fun
                     \/ (call.results[i].fun = call.results[j].fun /\ i <= j))
                 => call.opt = {call.results[i]} /\ call.loc = {call.results[i].x}

\* two survivors tie on fun and the first one found is returned
C10_Witness ==
    /\ InGetConfig /\ call.maximized /\ restart
    /\ Len(record) = 2
    /\ Survivors = {1, 2}
    /\ call.results[1].fun = call.results[2].fun
    /\ call.results[1] # call.results[2]
    /\ call.opt = {call.results[1]}

InUpdate == call.op = "_update_classifier"

Positives == {i \in 1..Len(call.z) : call.z[i] = 1}

\* C11: for gamma in (0, 1) and a Record of n >= 1 observations, the training
\* set has X and z aligned with the Record by index, exactly round(gamma * n)
\* labels equal to 1 (the integer nearest gamma * n, the even one at a half, so
\* a count that n and gamma fix whatever the ties in y), and no observation
\* labelled 0 has a strictly lower y than one labelled 1.
C11_LowestQuantileLabelled ==
    (InUpdate /\ OfRatioEstimator) =>
        LET n == Len(record)
            k == Cardinality(Positives)
            g == self.gamma
            twice_gap == 2 * (k * g.d - g.n * n)
        IN  /\ call.error = "none"
            /\ Len(call.X) = n /\ Len(call.z) = n
            /\ \A i \in 1..n : call.X[i] = record[i].x /\ call.z[i] \in {0, 1}
            /\ -g.d <= twice_gap /\ twice_gap <= g.d
            /\ (twice_gap \in {g.d, -g.d} => k % 2 = 0)
            /\ \A i, j \in 1..n :
                  (call.z[i] = 1 /\ call.z[j] = 0) => record[i].y <= record[j].y

\* three observations with a tie in y across the cut: one of the tied is
\* labelled 1 and the other 0
C11_Witness ==
    /\ InUpdate /\ OfRatioEstimator
    /\ Len(record) = 3
    /\ Cardinality(Positives) = 2
    /\ \E i, j \in 1..3 : /\ call.z[i] = 1 /\ call.z[j] = 0
                          /\ record[i].y = record[j].y

\* floor(num_steps_per_iter / ceil(dataset_size / batch_size)) = e, in integers
DerivedEpochs(dataset_size, e) ==
    \E steps \in 1..dataset_size :
        /\ (steps - 1) * self.batch_size < dataset_size
        /\ dataset_size <= steps * self.batch_size
        /\ e * steps <= self.num_steps_per_iter
        /\ self.num_steps_per_iter < (e + 1) * steps

C13_HeadBuiltOnce ==
    [][/\ funcs \subseteq funcs'
       /\ (call'.op = "get_config" /\ call'.head_built) => call'.t \cap funcs = {}]_vars

\* C14: with retrain enabled, whenever a RatioEstimator.get_config call has
\* returned the controller holds no classifier, and a call that trained did so
\* on a classifier it had just built.
C14_NoClassifierSurvives ==
    (InGetConfig /\ OfRatioEstimator /\ self.retrain /\ call.ret # "no_return")
        => /\ logit = "none"
           /\ (Trained => call.created /\ call.fit_from = "fresh")

\* C15: every maximization of a BORE instance's get_config runs in the mode its
\* `restart` argument names: given restart=True one batch and no more, given
\* restart=False batches until one has a survivor, so never an empty result.
C15_RestartSetsMode ==
    (InGetConfig /\ OfRatioEstimator /\ call.maximized)
        => /\ (restart_given = Some(TRUE) => call.batches = 1 /\ call.ret # "no_return")
           /\ (restart_given = Some(FALSE) => call.branch # "not_found")

====
